---- MODULE Spec2Model ----
(***************************************************************************)
(* Model of package contextutil (src/contextutil.go): MultiContext merges  *)
(* N input contexts into one multiContext.  One goroutine per input        *)
(* selects on the input's Done channel and on mc.done; cancel() closes     *)
(* mc.done under a sync.Once.                                              *)
(*                                                                         *)
(* mc.err is an interface value, i.e. two machine words (type word and     *)
(* data word).  It is written at line 50 outside of any synchronisation,   *)
(* so the stores and loads of its two words are separate steps here: the   *)
(* interleavings give the values a racing build can leave in the slot.     *)
(***************************************************************************)
EXTENDS Naturals, Integers, Sequences, FiniteSets, TLC

\* ---------------------------------------------------------------- bounds
MaxCtxs == 2
MaxReleases == 2
MaxQCtxs == 2
MaxDeadline == 2

\* ------------------------------------------------------- program values
\* time.Unix(1<<63-62135596801, 999999999): above every deadline in range
MaxTime == MaxDeadline + 1

NilErr == [typ |-> "nil", dat |-> "nil"]
Canceled == [typ |-> "errorString", dat |-> "canceled"]
DeadlineExceeded == [typ |-> "deadlineExceededError", dat |-> "deadlineExceeded"]
InputErrs == {Canceled, DeadlineExceeded}

Nil == 0
Keys == {"k1", "k2"}
Vals == {1, 2}

Free == <<"free", 0>>

VARIABLES
    ctxs,       \* mc.ctxs: sequence of inputs [ok, dl, vals]
    ctxDone,    \* ctxDone[i]: input i's Done channel is closed
    ctxErr,     \* ctxErr[i]: what input i's Err() returns
    done,       \* mc.done is closed
    closes,     \* number of close(mc.done) executed
    err,        \* mc.err, the two words of the interface value
    once,       \* mc.once: [done, m]
    ctor,       \* position of MultiContext: "selectCtxs" or "returned"
    launched,   \* goroutines started so far by selectCtxs
    pc,         \* position of every watcher and of every cancel() caller
    entry,      \* entry[j]: state of the gate when release call j was made
    opc,        \* position of the caller that waits on Done() and reads Err()
    oerr,       \* the words that caller has loaded from mc.err
    orel,       \* release had been called when that caller saw Done() closed
    ret         \* result of the last Deadline()/Value() call

vars == <<ctxs, ctxDone, ctxErr, done, closes, err, once, ctor, launched,
          pc, entry, opc, oerr, orel, ret>>

W(i) == <<"w", i>>
R(j) == <<"r", j>>
N == Len(ctxs)
Watchers == {W(i) : i \in 1..N}
Releasers == {R(j) : j \in 1..MaxReleases}
Procs == Watchers \cup Releasers

\* ------------------------------------------------------ input contexts
\* an input that reports no deadline and carries no values; its Done and Err
\* are what any context.Context may have (context.WithCancel on context.Background())
Bare == [ok |-> FALSE, dl |-> 0, vals |-> [k \in Keys |-> Nil]]

\* every input the queries are checked on
AllCtxs ==
    [ok : {TRUE}, dl : 1..MaxTime, vals : [Keys -> Vals \cup {Nil}]]
    \cup [ok : {FALSE}, dl : {0}, vals : [Keys -> Vals \cup {Nil}]]

SeqsUpTo(n, S) == UNION {[1..m -> S] : m \in 0..n}

\* ----------------------------------------------------- pure functions
\* the comparison the wrong way round
Before_Swapped(a, b) == b < a

\* time.Time.Before
Before(a, b) == a < b

RECURSIVE DeadlineLoop(_, _, _, _)
DeadlineLoop(cs, i, min, found) ==
    IF i > Len(cs) THEN [deadline |-> min, ok |-> found]
    ELSE IF cs[i].ok
         THEN DeadlineLoop(cs, i + 1,
                           IF Before(cs[i].dl, min) THEN cs[i].dl ELSE min,
                           TRUE)
         ELSE DeadlineLoop(cs, i + 1, min, found)

Deadline(cs) == DeadlineLoop(cs, 1, MaxTime, FALSE)

\* the scan goes on after a match: the last value found wins
RECURSIVE ValueLoop_LastWins(_, _, _)
ValueLoop_LastWins(cs, i, key) ==
    IF i > Len(cs) THEN Nil
    ELSE LET rest == ValueLoop_LastWins(cs, i + 1, key)
         IN  IF rest # Nil THEN rest ELSE cs[i].vals[key]

RECURSIVE ValueLoop(_, _, _)
ValueLoop(cs, i, key) ==
    IF i > Len(cs) THEN Nil
    ELSE IF cs[i].vals[key] # Nil THEN cs[i].vals[key]
         ELSE ValueLoop(cs, i + 1, key)

Value_LastWins(cs, key) == ValueLoop_LastWins(cs, 1, key)

Value(cs, key) == ValueLoop(cs, 1, key)

\* Err(): the value of the slot as one load would see it
Err == err

\* ------------------------------------------------------------- initial
InitWith(cs) ==
    /\ ctxs = cs
    /\ ctxDone = [i \in 1..Len(cs) |-> FALSE]
    /\ ctxErr = [i \in 1..Len(cs) |-> NilErr]
    /\ done = FALSE
    /\ closes = 0
    /\ err = NilErr
    /\ once = [done |-> FALSE, m |-> Free]
    /\ entry = [j \in 1..MaxReleases |-> "none"]
    /\ opc = "wait"
    /\ oerr = NilErr
    /\ orel = FALSE
    /\ ret = <<"none">>

\* MultiContext has allocated mc and is about to run selectCtxs
Init ==
    \E cs \in SeqsUpTo(MaxCtxs, {Bare}) :
        /\ InitWith(cs)
        /\ ctor = "selectCtxs"
        /\ launched = 0
        /\ pc = [p \in {W(i) : i \in 1..Len(cs)} \cup Releasers |->
                    IF p[1] = "w" THEN "unlaunched" ELSE "idle"]

\* ---------------------------------------------------------- MultiContext
\* selectCtxs: one iteration of the loop starts one goroutine
Launch ==
    /\ ctor = "selectCtxs"
    /\ launched < N
    /\ launched' = launched + 1
    /\ pc' = [pc EXCEPT ![W(launched + 1)] = "select"]
    /\ UNCHANGED <<ctxs, ctxDone, ctxErr, done, closes, err, once, ctor,
                   entry, opc, oerr, orel, ret>>

\* MultiContext returns before the loop has started every goroutine
Return_Early ==
    /\ ctor = "selectCtxs"
    /\ ctor' = "returned"
    /\ UNCHANGED <<ctxs, ctxDone, ctxErr, done, closes, err, once, launched,
                   pc, entry, opc, oerr, orel, ret>>

\* the loop is over: MultiContext returns mc and mc.cancel
Return ==
    /\ ctor = "selectCtxs"
    /\ launched = N
    /\ ctor' = "returned"
    /\ UNCHANGED <<ctxs, ctxDone, ctxErr, done, closes, err, once, launched,
                   pc, entry, opc, oerr, orel, ret>>

\* ------------------------------------------------------------- inputs
\* input i is cancelled or times out: its Done closes, its Err is fixed
CtxFire(i, e) ==
    /\ ~ctxDone[i]
    /\ ctxDone' = [ctxDone EXCEPT ![i] = TRUE]
    /\ ctxErr' = [ctxErr EXCEPT ![i] = e]
    /\ UNCHANGED <<ctxs, done, closes, err, once, ctor, launched, pc, entry,
                   opc, oerr, orel, ret>>

\* ------------------------------------------------------------ watchers
\* the case is taken although the input's Done is still open
SelectCtxDone_Unguarded(i) ==
    /\ pc[W(i)] = "select"
    /\ pc' = [pc EXCEPT ![W(i)] = "storeTyp"]
    /\ UNCHANGED <<ctxs, ctxDone, ctxErr, done, closes, err, once, ctor,
                   launched, entry, opc, oerr, orel, ret>>

\* select, case <-ctx.Done()
SelectCtxDone(i) ==
    /\ pc[W(i)] = "select"
    /\ ctxDone[i]
    /\ pc' = [pc EXCEPT ![W(i)] = "storeTyp"]
    /\ UNCHANGED <<ctxs, ctxDone, ctxErr, done, closes, err, once, ctor,
                   launched, entry, opc, oerr, orel, ret>>

\* the goroutine leaves the select although mc.done is still open
SelectMcDone_Unguarded(i) ==
    /\ pc[W(i)] = "select"
    /\ pc' = [pc EXCEPT ![W(i)] = "exit"]
    /\ UNCHANGED <<ctxs, ctxDone, ctxErr, done, closes, err, once, ctor,
                   launched, entry, opc, oerr, orel, ret>>

\* mc.done carries one sent token instead of being closed: the receive
\* takes it
SelectMcDone_Consume(i) ==
    /\ pc[W(i)] = "select"
    /\ done
    /\ done' = FALSE
    /\ pc' = [pc EXCEPT ![W(i)] = "exit"]
    /\ UNCHANGED <<ctxs, ctxDone, ctxErr, closes, err, once, ctor, launched,
                   entry, opc, oerr, orel, ret>>

\* select, case <-mc.done
SelectMcDone(i) ==
    /\ pc[W(i)] = "select"
    /\ done
    /\ pc' = [pc EXCEPT ![W(i)] = "exit"]
    /\ UNCHANGED <<ctxs, ctxDone, ctxErr, done, closes, err, once, ctor,
                   launched, entry, opc, oerr, orel, ret>>

\* the input's error is dropped: nothing is stored in mc.err
StoreErrTyp_Skip(i) ==
    /\ pc[W(i)] = "storeTyp"
    /\ pc' = [pc EXCEPT ![W(i)] = "Do"]
    /\ UNCHANGED <<ctxs, ctxDone, ctxErr, done, closes, err, once, ctor,
                   launched, entry, opc, oerr, orel, ret>>

\* mc.err = ctx.Err(), first word
StoreErrTyp(i) ==
    /\ pc[W(i)] = "storeTyp"
    /\ err' = [err EXCEPT !.typ = ctxErr[i].typ]
    /\ pc' = [pc EXCEPT ![W(i)] = "storeDat"]
    /\ UNCHANGED <<ctxs, ctxDone, ctxErr, done, closes, once, ctor, launched,
                   entry, opc, oerr, orel, ret>>

\* the goroutine ends after the store, mc.cancel() is not called
StoreErrDat_NoCancel(i) ==
    /\ pc[W(i)] = "storeDat"
    /\ err' = [err EXCEPT !.dat = ctxErr[i].dat]
    /\ pc' = [pc EXCEPT ![W(i)] = "exit"]
    /\ UNCHANGED <<ctxs, ctxDone, ctxErr, done, closes, once, ctor, launched,
                   entry, opc, oerr, orel, ret>>

\* mc.err = ctx.Err(), second word; then mc.cancel()
StoreErrDat(i) ==
    /\ pc[W(i)] = "storeDat"
    /\ err' = [err EXCEPT !.dat = ctxErr[i].dat]
    /\ pc' = [pc EXCEPT ![W(i)] = "Do"]
    /\ UNCHANGED <<ctxs, ctxDone, ctxErr, done, closes, once, ctor, launched,
                   entry, opc, oerr, orel, ret>>

\* ------------------------------------------------------------- release
\* the returned cancel function is called; call j is the j-th call made
Release(j) ==
    /\ ctor = "returned"
    /\ pc[R(j)] = "idle"
    /\ j > 1 => pc[R(j - 1)] # "idle"
    /\ pc' = [pc EXCEPT ![R(j)] = "Do"]
    /\ entry' = [entry EXCEPT ![j] = IF done THEN "closed" ELSE "open"]
    /\ UNCHANGED <<ctxs, ctxDone, ctxErr, done, closes, err, once, ctor,
                   launched, opc, oerr, orel, ret>>

\* -------------------------------------------------------------- cancel
\* where cancel() returns to
AfterCancel(p) == IF p[1] = "w" THEN "exit" ELSE "returned"

\* sync.Once, o.m and its done flag.  Do returns at once when the flag is set
\* (fast path, or slow path finding it set under o.m); otherwise it takes
\* o.m, runs the function and then stores the flag and unlocks.  Taking and
\* dropping o.m are joined to the first and the last step of the function:
\* while o.m is held nothing else of once is touched by anyone.

\* a once that only tests and sets a flag: a caller that finds another call
\* inside the function returns at once
OnceDone_NoWait(p) ==
    /\ pc[p] = "Do"
    /\ once.done \/ once.m # Free
    /\ pc' = [pc EXCEPT ![p] = AfterCancel(p)]
    /\ UNCHANGED <<ctxs, ctxDone, ctxErr, done, closes, err, once, ctor,
                   launched, entry, opc, oerr, orel, ret>>

\* once.Do finds the done flag set: cancel() returns
OnceDone(p) ==
    /\ pc[p] = "Do"
    /\ once.done
    /\ pc' = [pc EXCEPT ![p] = AfterCancel(p)]
    /\ UNCHANGED <<ctxs, ctxDone, ctxErr, done, closes, err, once, ctor,
                   launched, entry, opc, oerr, orel, ret>>

\* the function does not close mc.done
CloseDone_NoClose(p) ==
    /\ pc[p] = "Do"
    /\ ~once.done
    /\ once.m = Free
    /\ once' = [once EXCEPT !.m = p]
    /\ pc' = [pc EXCEPT ![p] = "ifErr"]
    /\ UNCHANGED <<ctxs, ctxDone, ctxErr, done, closes, err, ctor, launched,
                   entry, opc, oerr, orel, ret>>

\* a plain mutex in place of the Once: the done flag is not looked at
CloseDone_NoOnce(p) ==
    /\ pc[p] = "Do"
    /\ once.m = Free
    /\ once' = [once EXCEPT !.m = p]
    /\ done' = TRUE
    /\ closes' = closes + 1
    /\ pc' = [pc EXCEPT ![p] = "ifErr"]
    /\ UNCHANGED <<ctxs, ctxDone, ctxErr, err, ctor, launched, entry, opc,
                   oerr, orel, ret>>

\* once.Do finds the flag clear and gets o.m; the function starts:
\* close(mc.done)
CloseDone(p) ==
    /\ pc[p] = "Do"
    /\ ~once.done
    /\ once.m = Free
    /\ once' = [once EXCEPT !.m = p]
    /\ done' = TRUE
    /\ closes' = closes + 1
    /\ pc' = [pc EXCEPT ![p] = "ifErr"]
    /\ UNCHANGED <<ctxs, ctxDone, ctxErr, err, ctor, launched, entry, opc,
                   oerr, orel, ret>>

\* o.m is kept and the flag is not stored after the function
IfErrNil_NoUnlock(p) ==
    /\ pc[p] = "ifErr"
    /\ pc' = [pc EXCEPT ![p] = IF err.typ = NilErr.typ THEN "setTyp"
                                                       ELSE AfterCancel(p)]
    /\ UNCHANGED <<ctxs, ctxDone, ctxErr, done, closes, err, once, ctor,
                   launched, entry, opc, oerr, orel, ret>>

\* if mc.err == nil: an interface is nil when its type word is nil; when it
\* is not, the function is over: the flag is stored, o.m unlocked, cancel()
\* returns
IfErrNil(p) ==
    /\ pc[p] = "ifErr"
    /\ IF err.typ = NilErr.typ
       THEN /\ pc' = [pc EXCEPT ![p] = "setTyp"]
            /\ once' = once
       ELSE /\ pc' = [pc EXCEPT ![p] = AfterCancel(p)]
            /\ once' = [done |-> TRUE, m |-> Free]
    /\ UNCHANGED <<ctxs, ctxDone, ctxErr, done, closes, err, ctor, launched,
                   entry, opc, oerr, orel, ret>>

\* mc.err = context.Canceled, first word
SetErrTyp(p) ==
    /\ pc[p] = "setTyp"
    /\ err' = [err EXCEPT !.typ = Canceled.typ]
    /\ pc' = [pc EXCEPT ![p] = "setDat"]
    /\ UNCHANGED <<ctxs, ctxDone, ctxErr, done, closes, once, ctor, launched,
                   entry, opc, oerr, orel, ret>>

\* mc.err = context.Canceled, second word; the function is over: the flag
\* is stored, o.m unlocked, cancel() returns
SetErrDat(p) ==
    /\ pc[p] = "setDat"
    /\ err' = [err EXCEPT !.dat = Canceled.dat]
    /\ once' = [done |-> TRUE, m |-> Free]
    /\ pc' = [pc EXCEPT ![p] = AfterCancel(p)]
    /\ UNCHANGED <<ctxs, ctxDone, ctxErr, done, closes, ctor, launched,
                   entry, opc, oerr, orel, ret>>

cancel(p) ==
    \/ OnceDone(p)
    \/ CloseDone(p)
    \/ IfErrNil(p)
    \/ SetErrTyp(p)
    \/ SetErrDat(p)

\* ------------------------------------------------------------ the caller
\* <-mc.Done() returns
ObsDone ==
    /\ ctor = "returned"
    /\ opc = "wait"
    /\ done
    /\ opc' = "errTyp"
    /\ orel' = \E j \in 1..MaxReleases : pc[R(j)] # "idle"
    /\ UNCHANGED <<ctxs, ctxDone, ctxErr, done, closes, err, once, ctor,
                   launched, pc, entry, oerr, ret>>

\* mc.Err(), first word
ObsErrTyp ==
    /\ opc = "errTyp"
    /\ oerr' = [oerr EXCEPT !.typ = Err.typ]
    /\ opc' = "errDat"
    /\ UNCHANGED <<ctxs, ctxDone, ctxErr, done, closes, err, once, ctor,
                   launched, pc, entry, orel, ret>>

\* mc.Err(), second word
ObsErrDat ==
    /\ opc = "errDat"
    /\ oerr' = [oerr EXCEPT !.dat = Err.dat]
    /\ opc' = "read"
    /\ UNCHANGED <<ctxs, ctxDone, ctxErr, done, closes, err, once, ctor,
                   launched, pc, entry, orel, ret>>

watcher(i) ==
    \/ SelectCtxDone(i)
    \/ SelectMcDone(i)
    \/ StoreErrTyp(i)
    \/ StoreErrDat(i)
    \/ cancel(W(i))

release(j) == Release(j) \/ cancel(R(j))

\* the merged context, its inputs and the callers of release
LNext ==
    \/ Launch
    \/ Return
    \/ \E i \in 1..N : \E e \in InputErrs : CtxFire(i, e)
    \/ \E i \in 1..N : watcher(i)
    \/ \E j \in 1..MaxReleases : release(j)

\* ... and a caller that waits on Done() and then reads Err()
Next ==
    \/ LNext
    \/ ObsDone
    \/ ObsErrTyp
    \/ ObsErrDat

Spec == Init /\ [][Next]_vars

\* a step of the program itself: the constructor, a watcher or a cancel()
\* call that has been made
Running ==
    \/ Launch
    \/ Return
    \/ \E i \in 1..N : watcher(i)
    \/ \E j \in 1..MaxReleases : cancel(R(j))

\* The scheduler runs a goroutine whenever one can run.  No goroutine loops,
\* each takes finitely many steps, so this gives every goroutine that stays
\* runnable its next step.  Nothing forces an input to complete or the caller
\* to call release.
Fairness == WF_vars(Running)

LiveSpec == Init /\ [][LNext]_vars /\ Fairness

\* ------------------------------------------------------------- queries
\* a constructed merged context over any list of inputs
QInit ==
    \E cs \in SeqsUpTo(MaxQCtxs, AllCtxs) :
        /\ InitWith(cs)
        /\ ctor = "returned"
        /\ launched = Len(cs)
        /\ pc = [p \in {W(i) : i \in 1..Len(cs)} \cup Releasers |->
                    IF p[1] = "w" THEN "select" ELSE "idle"]

CallDeadline ==
    /\ ret' = <<"Deadline", Deadline(ctxs)>>
    /\ UNCHANGED <<ctxs, ctxDone, ctxErr, done, closes, err, once, ctor,
                   launched, pc, entry, opc, oerr, orel>>

CallValue(key) ==
    /\ ret' = <<"Value", key, Value(ctxs, key)>>
    /\ UNCHANGED <<ctxs, ctxDone, ctxErr, done, closes, err, once, ctor,
                   launched, pc, entry, opc, oerr, orel>>

QNext ==
    \/ CallDeadline
    \/ \E key \in Keys : CallValue(key)

QSpec == QInit /\ [][QNext]_vars

\* ------------------------------------------------------------ properties
Called(j) == pc[R(j)] # "idle"
FiredInputs == {i \in 1..N : ctxDone[i]}
\* no goroutine is between the two stores of an assignment to mc.err
NoStoreInFlight == \A p \in Procs : pc[p] \notin {"storeDat", "setDat"}

\* C1: once the Done of some input is closed, mc.done is eventually closed,
\* whether or not release is ever called.
C1_InputDoneLeadsToDone ==
    (\E i \in 1..N : ctxDone[i]) ~> done

C1_Witness ==
    /\ done
    /\ FiredInputs # {}
    /\ \A j \in 1..MaxReleases : ~Called(j)

\* C2: mc.done is closed only if some input's Done is closed or release has
\* been called.
C2_NoSpuriousDone ==
    done => (FiredInputs # {} \/ \E j \in 1..MaxReleases : Called(j))

C2_Witness ==
    /\ N = 1
    /\ done
    /\ ctxDone[1]
    /\ \A j \in 1..MaxReleases : ~Called(j)

\* C3: once mc.err holds an error, no step changes it.
C3_ErrSetAtMostOnce ==
    [][(err \in InputErrs) => (err' = err)]_vars

\* C4: once mc.done is closed it stays closed.
C4_DoneMonotonic ==
    [][done => done']_vars

C4_Witness ==
    /\ done
    /\ \E i \in 1..N : pc[W(i)] = "exit"
    /\ \E j \in 1..MaxReleases : entry[j] = "closed" /\ pc[R(j)] = "returned"

\* C5: when no input has completed and release was called, a caller that
\* saw Done() closed reads context.Canceled from Err().
C5_ReleaseReadsCanceled ==
    (opc = "read" /\ FiredInputs = {}) => oerr = Canceled

\* C6: when exactly one input has completed and release had not been called
\* when the caller saw Done() closed, the caller reads that input's error
\* from Err().
C6_ReadsInputErr ==
    (opc = "read" /\ ~orel /\ Cardinality(FiredInputs) = 1)
        => \A i \in FiredInputs : oerr = ctxErr[i]

C6_Witness ==
    /\ opc = "read"
    /\ ~orel
    /\ N >= 2
    /\ FiredInputs = {2}
    /\ ctxErr[2] = DeadlineExceeded
    /\ oerr = DeadlineExceeded

\* some release call has been made and has not returned
InFlight == \E j \in 1..MaxReleases : Called(j) /\ pc[R(j)] # "returned"

LateReleaseKeeps ==
    \A j \in 1..MaxReleases :
        (entry[j] = "closed" /\ pc'[R(j)] # pc[R(j)])
            => (done' = done /\ err' = err)

\* C7: every release call returns (whenever calls are in progress, a state
\* follows in which all calls made have returned), and no step of a release
\* call made when mc.done was already closed changes mc.done or mc.err.
C7_ReleaseIdempotent ==
    /\ InFlight ~> ~InFlight
    /\ [][LateReleaseKeeps]_vars

C7_Witness ==
    /\ MaxReleases >= 2
    /\ pc[R(1)] = "returned"
    /\ pc[R(2)] = "returned"
    /\ entry[1] = "open"
    /\ entry[2] = "closed"

\* C8: Deadline() reports a deadline exactly when some input does, and then
\* the smallest one, whatever the order of the inputs.
WithDeadline == {i \in 1..N : ctxs[i].ok}
Perms == {f \in [1..N -> 1..N] : \A i, k \in 1..N : f[i] = f[k] => i = k}

C8_DeadlineIsMin ==
    ret[1] = "Deadline" =>
        /\ ret[2].ok = (WithDeadline # {})
        /\ WithDeadline # {} =>
              /\ \E i \in WithDeadline : ret[2].deadline = ctxs[i].dl
              /\ \A i \in WithDeadline : ret[2].deadline <= ctxs[i].dl
        /\ \A f \in Perms :
              LET d == Deadline([i \in 1..N |-> ctxs[f[i]]])
              IN  d.ok = ret[2].ok /\ (d.ok => d.deadline = ret[2].deadline)

C8_Witness ==
    /\ ret[1] = "Deadline"
    /\ N >= 2
    /\ ctxs[1].ok
    /\ ctxs[2].ok
    /\ ctxs[2].dl < ctxs[1].dl
    /\ ret[2] = [deadline |-> ctxs[2].dl, ok |-> TRUE]

\* C9: Value(key) is the value of the first input, in the order given, whose
\* lookup is not nil, and nil when there is none.
Carrying(key) == {i \in 1..N : ctxs[i].vals[key] # Nil}

C9_ValueFirstMatch ==
    ret[1] = "Value" =>
        IF Carrying(ret[2]) = {}
        THEN ret[3] = Nil
        ELSE \E i \in Carrying(ret[2]) :
                /\ \A k \in Carrying(ret[2]) : i <= k
                /\ ret[3] = ctxs[i].vals[ret[2]]

C9_Witness ==
    /\ ret[1] = "Value"
    /\ N >= 2
    /\ ctxs[1].vals[ret[2]] = 1
    /\ ctxs[2].vals[ret[2]] = 2
    /\ ret[3] = 1

\* C10: whenever mc.err holds an error, it is context.Canceled or the error
\* of an input whose Done is closed.
C10_ErrIsCanceledOrInputErr ==
    (err.typ # NilErr.typ /\ NoStoreInFlight)
        => (err = Canceled \/ \E i \in FiredInputs : err = ctxErr[i])

\* C11: once release has been called, every watcher goroutine terminates,
\* also those whose input never completes.
C11_ReleaseEndsWatchers ==
    (\E j \in 1..MaxReleases : Called(j))
        ~> (\A i \in 1..N : pc[W(i)] = "exit")

C11_Witness ==
    /\ N >= 2
    /\ FiredInputs = {}
    /\ \E j \in 1..MaxReleases : Called(j)
    /\ \A i \in 1..N : pc[W(i)] = "exit"

\* C12: whenever mc.done is closed, mc.err is not nil.
C12_DoneImpliesErr ==
    done => err.typ # NilErr.typ

\* C13: as long as mc.done is not closed, mc.err is nil (looked at when no
\* assignment to it is half done).
C13_ErrNilBeforeDone ==
    (~done /\ NoStoreInFlight) => err = NilErr

\* C14: close(mc.done) is executed at most once, and exactly once when
\* mc.done is closed, however many watchers and release calls run cancel().
C14_ClosedOnce ==
    /\ closes <= 1
    /\ done <=> closes = 1

C14_Witness ==
    /\ closes = 1
    /\ \E i \in 1..N : pc[W(i)] = "exit" /\ ctxDone[i]
    /\ \A j \in 1..MaxReleases : pc[R(j)] = "returned"

\* a watcher executes one of the two stores of mc.err = ctx.Err()
WatcherStores(i) ==
    /\ pc[W(i)] \in {"storeTyp", "storeDat"}
    /\ pc'[W(i)] # pc[W(i)]

\* C15: no watcher assigns to mc.err in a state in which mc.done is already
\* closed.
C15_LoserNeverWrites ==
    [][~(done /\ \E i \in 1..N : WatcherStores(i))]_vars

\* the error the trigger p stands for
TriggerErr(p) == IF p[1] = "w" THEN ctxErr[p[2]] ELSE Canceled

\* the call p finishes the close body, and no assignment to mc.err is half
\* done at that moment
FinishesBody(p) ==
    /\ once.m = p
    /\ once'.m = Free
    /\ \A q \in Procs : pc'[q] \notin {"storeDat", "setDat"}

\* C16: when the call that runs the close body finishes it, mc.err is
\* context.Canceled if that call is a release call, and the error of the
\* watcher's input if it is a watcher's call.
C16_ErrOfFirstTrigger ==
    [][\A p \in Procs : FinishesBody(p) => err' = TriggerErr(p)]_vars

\* C17: a watcher that has ended saw its input's Done or mc.done closed; while
\* mc.done is open, the watcher started for an input that has not completed
\* is blocked in its select.
C17_WatcherBlockedUntilSignal ==
    \A i \in 1..N :
        /\ pc[W(i)] = "exit" => (ctxDone[i] \/ done)
        /\ (i <= launched /\ ~done /\ ~ctxDone[i]) => pc[W(i)] = "select"

C17_Witness ==
    /\ ctor = "returned"
    /\ N >= 2
    /\ ~done
    /\ \A j \in 1..MaxReleases : ~Called(j)
    /\ ctxDone[1]
    /\ pc[W(1)] = "Do"
    /\ ~ctxDone[2]
    /\ pc[W(2)] = "select"

\* the watcher goroutines started so far
Started == {i \in 1..N : pc[W(i)] # "unlaunched"}

\* C18: MultiContext returns, whether or not any input completes; it starts
\* one watcher per input, and when it has returned there are as many watchers
\* started as inputs.
C18_ReturnsWithAllLaunched ==
    /\ <>(ctor = "returned")
    /\ [](Started = 1..launched /\ launched <= N)
    /\ [](ctor = "returned" => Started = 1..N)

C18_Witness ==
    /\ ctor = "returned"
    /\ N >= 2
    /\ FiredInputs = {}
    /\ \A i \in 1..N : pc[W(i)] = "select"

\* some call is inside the close body
InBody == \E p \in Procs : pc[p] \in {"ifErr", "setTyp", "setDat"}

\* C19: when a release call has returned, mc.done is closed, mc.err is not
\* nil and no call is inside the close body.
C19_ReturnedMeansCommitted ==
    \A j \in 1..MaxReleases :
        pc[R(j)] = "returned" =>
            (done /\ err.typ # NilErr.typ /\ once.done /\ ~InBody)

C19_Witness ==
    /\ MaxReleases >= 2
    /\ entry[1] = "open"
    /\ entry[2] = "open"
    /\ pc[R(1)] = "returned"
    /\ pc[R(2)] = "returned"

\* mc.done is closed and every watcher has ended
Quiescent == done /\ \A i \in 1..N : pc[W(i)] = "exit"

\* C20: in a state where mc.done is closed and every watcher has ended,
\* mc.err is not nil and no step changes mc.err or mc.done.
C20_QuiescentStable ==
    [][Quiescent => (err.typ # NilErr.typ /\ err' = err /\ done' = done)]_vars

====
